---- MODULE Spec2Model ----
(***************************************************************************)
(* Model of the ingestion core of teacher-ai-assistant:                    *)
(*   - chunker.py       chunk_text, a pure function over character texts   *)
(*   - vector_store.py  VectorStore (FAISS index + metadata list), the     *)
(*                      process-wide instance and save_to_vector_store     *)
(*   - app.py           upload_file, the request that runs the pipeline    *)
(*   - embedder.py      the process-wide EmbeddingGenerator and            *)
(*                      generate_embeddings                                *)
(*   - reset_faiss.py   the script that deletes the two files              *)
(* The store is modelled statement by statement, one program counter per   *)
(* request thread, so that a process stop and a second request can fall    *)
(* between any two statements.                                             *)
(***************************************************************************)
EXTENDS Integers, Sequences, FiniteSets, TLC

VARIABLES
    vsGlobal,     \* vector_store._vector_store: 0 is None, else a position in stores
    stores,       \* the VectorStore objects constructed in this process
    pc,           \* per request: the statement it is about to run
    local,        \* per request: arguments and locals of save_to_vector_store
    resp,         \* per request: outcome of the latest upload_file ("none" before)
    loadReport,   \* what the latest VectorStore.load() in this process returned
    diskIndex,    \* the file faiss_index.bin
    diskMeta,     \* the file metadata.json
    prev,         \* history: the call that finished before the latest one began
    crashes,      \* history: how often the process was restarted
    snap,         \* history: the store as it was when the latest save() finished
    generators,   \* the EmbeddingGenerator objects constructed in this process
    egGlobal,     \* embedder._embedding_generator: 0 is None, else a position in generators
    up,           \* per request: locals of upload_file and generate_embeddings, with history
    resetInfo,    \* history: the run of reset_faiss.py and what was uploaded since
    text,         \* chunk_text: argument text
    target,       \* chunk_text: argument target_words
    maxw,         \* chunk_text: argument max_words
    chunks,       \* chunk_text: the returned list
    leftover,     \* chunk_text: current_chunk when the loop has ended (words)
    called        \* chunk_text: has returned

storeVars == <<vsGlobal, stores, pc, local, resp, loadReport, diskIndex, diskMeta,
              prev, crashes, snap>>
chunkVars == <<text, target, maxw, chunks, leftover, called>>
pipeVars == <<generators, egGlobal, up, resetInfo>>
vars == <<vsGlobal, stores, pc, local, resp, loadReport, diskIndex, diskMeta,
          prev, crashes, snap, generators, egGlobal, up, resetInfo, text, target, maxw, chunks, leftover, called>>

(***************************************************************************)
(* Bounds                                                                  *)
(***************************************************************************)
MaxPassages == 2
MaxRecords == 3
MaxCrashes == 1
MaxConcRecords == 2
MaxUploadRecords == 2
MaxUploadConcRecords == 1
NThreads == 2
MaxLen == 7
MaxMaxWords == 3

Threads == 1..NThreads

\* VectorStore.__init__(dimension=384); all-MiniLM-L6-v2 also yields 384
DefaultDimension == 384

\* dimensions a batch handed to save_to_vector_store can carry: the store's
\* own and that of another embedding model
Dims == {DefaultDimension, 2 * DefaultDimension}

Files == {"a.txt", "b.pdf"}

Min(a, b) == IF a <= b THEN a ELSE b
Max(a, b) == IF a >= b THEN a ELSE b

\* all sequences over S of length lo..hi
SeqsUpTo(S, lo, hi) == UNION {[1..n -> S] : n \in lo..hi}

(***************************************************************************)
(* Data: passages, vectors, the FAISS index, the two files                 *)
(***************************************************************************)
\* the k-th passage of the document uploaded as file f (a chunk text)
Passage(f, k) == <<f, k>>

\* model.encode: the vector of a passage, tagged with the passage it embeds
Embed(p, d) == [of |-> p, d |-> d]

\* generate_embeddings: the (embedding, chunk_text) pairs, in passage order;
\* batch[k] is the dimension of the k-th vector
EmbeddingPairs(f, batch) ==
    [k \in 1..Len(batch) |-> [vec |-> Embed(Passage(f, k), batch[k]), chunk |-> Passage(f, k)]]

\* self.index = None
NoIndex == [exists |-> FALSE, d |-> 0, xb |-> <<>>]

\* faiss.IndexFlatL2(d)
IndexFlatL2(d) == [exists |-> TRUE, d |-> d, xb |-> <<>>]

\* VectorStore.__init__
VectorStoreInit == [dimension |-> DefaultDimension, index |-> NoIndex, metadata |-> <<>>]

\* VectorStore.create_index
create_index(st) == [st EXCEPT !.index = IndexFlatL2(st.dimension)]

\* VectorStore.get_index_size
get_index_size(st) == IF ~st.index.exists THEN 0 ELSE Len(st.index.xb)

ChunkIdOffsetInBatch(metadata, i) == i - 1

\* the value of "chunk_id": len(self.metadata), read before the append of
\* the i-th pair of the batch
ChunkIdNow(metadata, i) == Len(metadata)

\* the dict appended to self.metadata
NewRecord(chunk, filename, cid) ==
    [chunk_text |-> chunk, source_file |-> filename, chunk_id |-> cid]

\* np.array(embeddings).astype('float32') followed by index.add: numpy
\* raises on a ragged list, faiss unpacks `n, d = x.shape` (raises on the
\* 1-D array of an empty list) and asserts d == self.d
AddAccepts(index, pairs) ==
    /\ Len(pairs) > 0
    /\ \A k \in 1..Len(pairs) : pairs[k].vec.d = index.d

\* index.add(embeddings_array): the vectors go to the end, in batch order
IndexAdd(index, pairs) ==
    [index EXCEPT !.xb = @ \o [k \in 1..Len(pairs) |-> pairs[k].vec]]

NoIndexFile == [exists |-> FALSE, d |-> 0, ntotal |-> 0, xb |-> <<>>]
NoMetaFile == [exists |-> FALSE, items |-> <<>>]

\* faiss.write_index: header (d, ntotal) and the stored vectors
write_index(index) ==
    [exists |-> TRUE, d |-> index.d, ntotal |-> Len(index.xb), xb |-> index.xb]

\* faiss.read_index
read_index(f) == [exists |-> TRUE, d |-> f.d, xb |-> SubSeq(f.xb, 1, f.ntotal)]

\* json.dump of one record: an object, keys in insertion order
JsonObject(r) ==
    << <<"chunk_text", r.chunk_text>>, <<"source_file", r.source_file>>, <<"chunk_id", r.chunk_id>> >>

\* json.dump(self.metadata, f)
json_dump(metadata) ==
    [exists |-> TRUE, items |-> [i \in 1..Len(metadata) |-> JsonObject(metadata[i])]]

\* json.load of one object back into a dict
JsonDict(o) == [chunk_text |-> o[1][2], source_file |-> o[2][2], chunk_id |-> o[3][2]]

\* json.load(f)
json_load(f) == [i \in 1..Len(f.items) |-> JsonDict(f.items[i])]

\* VectorStore.load: the return value, with the message printed on False
load_result(fi, fm) == IF ~fi.exists \/ ~fm.exists THEN "absent" ELSE "loaded"

LoadKeepsOldMetadata(st, fi, fm) ==
    IF ~fi.exists \/ ~fm.exists THEN st ELSE [st EXCEPT !.index = read_index(fi)]

\* VectorStore.load: the store afterwards
load(st, fi, fm) ==
    IF ~fi.exists \/ ~fm.exists
    THEN st
    ELSE [st EXCEPT !.index = read_index(fi), !.metadata = json_load(fm)]

(***************************************************************************)
(* History kept for the statements below; not program state                *)
(***************************************************************************)
NoSnap == [valid |-> FALSE, size |-> 0, d |-> 0, dimension |-> 0, metadata |-> <<>>]
SnapOf(st) ==
    [valid |-> TRUE, size |-> get_index_size(st), d |-> st.index.d,
     dimension |-> st.dimension, metadata |-> st.metadata]
NoPrev == [any |-> FALSE, s |-> 0, isz |-> 0, batch |-> <<>>]
\* a finished call: the sizes add_embeddings found, and the batch
PrevOf(l) == [any |-> TRUE, s |-> Len(l.pre.meta), isz |-> Len(l.pre.xb), batch |-> l.batch]

NoLocal ==
    [store |-> 0, file |-> "", batch |-> <<>>, i |-> 1, cid |-> 0,
     pre |-> [meta |-> <<>>, xb |-> <<>>]]

\* what a request found when upload_file began
NoStart == [vsGlobal |-> 0, stores |-> <<>>, diskIndex |-> NoIndexFile, diskMeta |-> NoMetaFile]

\* upload_file before its first statement; failed names the statement that
\* raised, loaded and encoded say whether this request constructed the
\* EmbeddingGenerator and whether it called model.encode
NoUp ==
    [file |-> "", chunks |-> <<>>, generator |-> 0, pairs |-> <<>>,
     start |-> NoStart, failed |-> "", loaded |-> FALSE, encoded |-> FALSE,
     afterReset |-> FALSE]

\* reset_faiss.py has not run
NoReset == [done |-> FALSE, live |-> FALSE, hadData |-> FALSE, begun |-> 0]

\* the batches of a request through upload_file: every vector comes from the
\* one embedding model, whose dimension is the store's default
PipelineBatches == SeqsUpTo({DefaultDimension}, 0, MaxPassages)
\* the batches a caller of save_to_vector_store can pass
AllBatches == SeqsUpTo(Dims, 0, MaxPassages)

RECURSIVE InFlightUpTo(_)
InFlightUpTo(t) ==
    IF t = 0 THEN 0
    ELSE (IF pc[t] = "idle" THEN 0 ELSE Len(local[t].batch)) + InFlightUpTo(t - 1)

RECURSIVE LongestStore(_)
LongestStore(k) ==
    IF k = 0 THEN 0 ELSE Max(Len(stores[k].metadata), LongestStore(k - 1))

\* records that exist or are on their way: keeps the model finite
Footprint == Max(LongestStore(Len(stores)), Len(diskMeta.items)) + InFlightUpTo(NThreads)

TheStore(t) == stores[local[t].store]
Pairs(t) == EmbeddingPairs(local[t].file, local[t].batch)

(***************************************************************************)
(* The store: one request of upload_file calling save_to_vector_store      *)
(***************************************************************************)
Init ==
    /\ vsGlobal = 0
    /\ stores = <<>>
    /\ pc = [t \in Threads |-> "idle"]
    /\ local = [t \in Threads |-> NoLocal]
    /\ resp = [t \in Threads |-> "none"]
    /\ loadReport = "none"
    /\ diskIndex = NoIndexFile
    /\ diskMeta = NoMetaFile
    /\ prev = NoPrev
    /\ crashes = 0
    /\ snap = NoSnap
    /\ generators = <<>>
    /\ egGlobal = 0
    /\ up = [t \in Threads |-> NoUp]
    /\ resetInfo = NoReset
    /\ text = <<>>
    /\ target = 1
    /\ maxw = 1
    /\ chunks = <<>>
    /\ leftover = <<>>
    /\ called = FALSE

\* app.py 64-67: the pairs are ready and save_to_vector_store is entered
Begin(t, batches, cap) ==
    /\ pc[t] = "idle"
    /\ \E f \in Files, b \in batches :
        /\ Footprint + Len(b) <= cap
        /\ local' = [local EXCEPT ![t] = [NoLocal EXCEPT !.file = f, !.batch = b]]
    /\ pc' = [pc EXCEPT ![t] = "get_vector_store"]
    /\ resp' = [resp EXCEPT ![t] = "none"]
    /\ prev' = IF resp[t] = "none" THEN NoPrev ELSE PrevOf(local[t])
    /\ UNCHANGED <<chunkVars, pipeVars, vsGlobal, stores, loadReport, diskIndex, diskMeta, crashes, snap>>

\* get_vector_store, line 151: the test of the global
GetVectorStore(t) ==
    /\ pc[t] = "get_vector_store"
    /\ IF vsGlobal = 0
       THEN /\ pc' = [pc EXCEPT ![t] = "vs_new"]
            /\ local' = local
       ELSE /\ pc' = [pc EXCEPT ![t] = "add_embeddings"]
            /\ local' = [local EXCEPT ![t].store = vsGlobal]
    /\ UNCHANGED <<chunkVars, pipeVars, vsGlobal, stores, resp, loadReport, diskIndex, diskMeta, prev, crashes, snap>>

\* line 152: _vector_store = VectorStore()
VsNew(t) ==
    /\ pc[t] = "vs_new"
    /\ stores' = Append(stores, VectorStoreInit)
    /\ vsGlobal' = Len(stores) + 1
    /\ pc' = [pc EXCEPT ![t] = "vs_load"]
    /\ UNCHANGED <<chunkVars, pipeVars, local, resp, loadReport, diskIndex, diskMeta, prev, crashes, snap>>

\* line 153: _vector_store.load(), on whatever the global names now
VsLoad(t) ==
    /\ pc[t] = "vs_load"
    /\ stores' = [stores EXCEPT ![vsGlobal] = load(@, diskIndex, diskMeta)]
    /\ loadReport' = load_result(diskIndex, diskMeta)
    /\ pc' = [pc EXCEPT ![t] = "vs_return"]
    /\ UNCHANGED <<chunkVars, pipeVars, vsGlobal, local, resp, diskIndex, diskMeta, prev, crashes, snap>>

\* line 154: return _vector_store
VsReturn(t) ==
    /\ pc[t] = "vs_return"
    /\ local' = [local EXCEPT ![t].store = vsGlobal]
    /\ pc' = [pc EXCEPT ![t] = "add_embeddings"]
    /\ UNCHANGED <<chunkVars, pipeVars, vsGlobal, stores, resp, loadReport, diskIndex, diskMeta, prev, crashes, snap>>

\* add_embeddings, lines 48-57: create the index if there is none, then
\* enter the loop over the pairs (or fall through it when there are none)
AddEmbeddings(t) ==
    /\ pc[t] = "add_embeddings"
    /\ LET st == IF TheStore(t).index.exists THEN TheStore(t) ELSE create_index(TheStore(t))
       IN /\ stores' = [stores EXCEPT ![local[t].store] = st]
          /\ local' = [local EXCEPT ![t].i = 1,
                                    ![t].pre = [meta |-> st.metadata, xb |-> st.index.xb]]
    /\ pc' = [pc EXCEPT ![t] = IF Len(local[t].batch) = 0 THEN "index_add" ELSE "loop_len"]
    /\ UNCHANGED <<chunkVars, pipeVars, vsGlobal, resp, loadReport, diskIndex, diskMeta, prev, crashes, snap>>

\* line 62: len(self.metadata) is evaluated while the dict is built
LoopLen(t) ==
    /\ pc[t] = "loop_len"
    /\ local' = [local EXCEPT ![t].cid = ChunkIdNow(TheStore(t).metadata, local[t].i)]
    /\ pc' = [pc EXCEPT ![t] = "loop_append"]
    /\ UNCHANGED <<chunkVars, pipeVars, vsGlobal, stores, resp, loadReport, diskIndex, diskMeta, prev, crashes, snap>>

\* lines 58-63: embeddings.append and self.metadata.append
LoopAppend(t) ==
    /\ pc[t] = "loop_append"
    /\ stores' = [stores EXCEPT ![local[t].store].metadata =
                    Append(@, NewRecord(Pairs(t)[local[t].i].chunk, local[t].file, local[t].cid))]
    /\ local' = [local EXCEPT ![t].i = @ + 1]
    /\ pc' = [pc EXCEPT ![t] = IF local[t].i = Len(local[t].batch) THEN "index_add" ELSE "loop_len"]
    /\ UNCHANGED <<chunkVars, pipeVars, vsGlobal, resp, loadReport, diskIndex, diskMeta, prev, crashes, snap>>

\* lines 66-67: the array conversion and index.add; when either raises, the
\* exception leaves save_to_vector_store and upload_file answers 500
IndexAddStep(t) ==
    /\ pc[t] = "index_add"
    /\ IF AddAccepts(TheStore(t).index, Pairs(t))
       THEN /\ stores' = [stores EXCEPT ![local[t].store].index = IndexAdd(@, Pairs(t))]
            /\ pc' = [pc EXCEPT ![t] = "save_index"]
            /\ resp' = resp
       ELSE /\ stores' = stores
            /\ pc' = [pc EXCEPT ![t] = "idle"]
            /\ resp' = [resp EXCEPT ![t] = "error"]
    /\ UNCHANGED <<chunkVars, pipeVars, vsGlobal, local, loadReport, diskIndex, diskMeta, prev, crashes, snap>>

\* save, line 83: faiss.write_index overwrites faiss_index.bin
SaveIndex(t) ==
    /\ pc[t] = "save_index"
    /\ diskIndex' = write_index(TheStore(t).index)
    /\ snap' = NoSnap
    /\ pc' = [pc EXCEPT ![t] = "save_metadata"]
    /\ UNCHANGED <<chunkVars, pipeVars, vsGlobal, stores, local, resp, loadReport, diskMeta, prev, crashes>>

\* save, lines 87-88: json.dump overwrites metadata.json; save and
\* save_to_vector_store return and upload_file answers 200
SaveMetadata(t) ==
    /\ pc[t] = "save_metadata"
    /\ diskMeta' = json_dump(TheStore(t).metadata)
    /\ snap' = SnapOf(TheStore(t))
    /\ pc' = [pc EXCEPT ![t] = "idle"]
    /\ resp' = [resp EXCEPT ![t] = "ok"]
    /\ UNCHANGED <<chunkVars, pipeVars, vsGlobal, stores, local, loadReport, diskIndex, prev, crashes>>

\* the process stops (killed, power loss) and is started again: module
\* globals are None again, the two files are what they were
Crash ==
    /\ crashes < MaxCrashes
    /\ vsGlobal # 0 \/ \E t \in Threads : pc[t] # "idle"
    /\ vsGlobal' = 0
    /\ stores' = <<>>
    /\ pc' = [t \in Threads |-> "idle"]
    /\ local' = [t \in Threads |-> NoLocal]
    /\ resp' = [t \in Threads |-> "none"]
    /\ loadReport' = "none"
    /\ prev' = NoPrev
    /\ crashes' = crashes + 1
    /\ generators' = <<>>
    /\ egGlobal' = 0
    /\ up' = [t \in Threads |-> NoUp]
    /\ UNCHANGED <<chunkVars, resetInfo, diskIndex, diskMeta, snap>>

\* one request at a time calling save_to_vector_store with any batch, across
\* process restarts
Next ==
    \/ Begin(1, AllBatches, MaxRecords)
    \/ GetVectorStore(1)
    \/ VsNew(1)
    \/ VsLoad(1)
    \/ VsReturn(1)
    \/ AddEmbeddings(1)
    \/ LoopLen(1)
    \/ LoopAppend(1)
    \/ IndexAddStep(1)
    \/ SaveIndex(1)
    \/ SaveMetadata(1)
    \/ Crash

Spec == Init /\ [][Next]_vars

\* one upload request at a time, each batch produced by the embedding
\* pipeline, across process restarts
NextUpload ==
    \/ Begin(1, PipelineBatches, MaxRecords)
    \/ GetVectorStore(1)
    \/ VsNew(1)
    \/ VsLoad(1)
    \/ VsReturn(1)
    \/ AddEmbeddings(1)
    \/ LoopLen(1)
    \/ LoopAppend(1)
    \/ IndexAddStep(1)
    \/ SaveIndex(1)
    \/ SaveMetadata(1)
    \/ Crash

SpecUpload == Init /\ [][NextUpload]_vars

\* uploads served concurrently within one process (Flask's threaded server),
\* each batch produced by the embedding pipeline
NextConc ==
    \E t \in Threads :
        \/ Begin(t, PipelineBatches, MaxConcRecords)
        \/ GetVectorStore(t)
        \/ VsNew(t)
        \/ VsLoad(t)
        \/ VsReturn(t)
        \/ AddEmbeddings(t)
        \/ LoopLen(t)
        \/ LoopAppend(t)
        \/ IndexAddStep(t)
        \/ SaveIndex(t)
        \/ SaveMetadata(t)

SpecConc == Init /\ [][NextConc]_vars

(***************************************************************************)
(* upload_file from its first statement: extract_text, chunk_text,         *)
(* generate_embeddings with the process-wide EmbeddingGenerator, then      *)
(* save_to_vector_store; and the reset script                              *)
(***************************************************************************)
\* EmbeddingGenerator.__init__: the model loaded and its dimension
EmbeddingGeneratorInit ==
    [model_name |-> "all-MiniLM-L6-v2", embedding_dim |-> DefaultDimension]

\* self.model.encode(chunks): one vector per passage, in the order given
Encode(generator, passages) ==
    [k \in 1..Len(passages) |-> Embed(passages[k], generator.embedding_dim)]

ZipReversed(embeddings, passages) ==
    [k \in 1..Min(Len(embeddings), Len(passages)) |->
        [vec |-> embeddings[Len(embeddings) + 1 - k], chunk |-> passages[k]]]

\* lines 54-56: zip(embeddings, chunks) into (embedding, chunk) pairs
Zip(embeddings, passages) ==
    [k \in 1..Min(Len(embeddings), Len(passages)) |->
        [vec |-> embeddings[k], chunk |-> passages[k]]]

RECURSIVE UploadsInFlightUpTo(_)
UploadsInFlightUpTo(t) ==
    IF t = 0 THEN 0
    ELSE (IF pc[t] = "idle" THEN 0 ELSE Len(up[t].chunks)) + UploadsInFlightUpTo(t - 1)

\* records that exist or are on their way: keeps the model finite
UploadFootprint ==
    Max(LongestStore(Len(stores)), Len(diskMeta.items)) + UploadsInFlightUpTo(NThreads)

\* with at most cap records, an index holds at most the vectors of cap
\* records and of one batch more for every stop between the two writes
MostVectors(cap) == cap + MaxCrashes * MaxPassages

HandlerGoesOn(t, stage) ==
    /\ pc' = [pc EXCEPT ![t] = "get_vector_store"]
    /\ resp' = resp
    /\ up' = [up EXCEPT ![t].failed = stage]
    /\ local' = [local EXCEPT ![t] = [NoLocal EXCEPT !.file = up[t].file]]

\* app.py 84-88: an exception raised inside the try block ends the request
\* with the 500 answer; nothing after the raising statement runs
ExceptionHandler(t, stage) ==
    /\ pc' = [pc EXCEPT ![t] = "idle"]
    /\ resp' = [resp EXCEPT ![t] = "error"]
    /\ up' = [up EXCEPT ![t].failed = stage]
    /\ local' = local

\* app.py 28-56: the request arrives, the file is stored under uploads/
UploadFile(t) ==
    /\ pc[t] = "idle"
    /\ \E f \in Files :
        up' = [up EXCEPT ![t] =
                 [NoUp EXCEPT !.file = f,
                              !.afterReset = resetInfo.done,
                              !.start = [vsGlobal |-> vsGlobal, stores |-> stores,
                                         diskIndex |-> diskIndex, diskMeta |-> diskMeta]]]
    /\ local' = [local EXCEPT ![t] = NoLocal]
    /\ resp' = [resp EXCEPT ![t] = "none"]
    /\ pc' = [pc EXCEPT ![t] = "extract_text"]
    /\ prev' = NoPrev
    /\ UNCHANGED <<chunkVars, vsGlobal, stores, loadReport, diskIndex, diskMeta, crashes, snap,
                   generators, egGlobal, resetInfo>>

\* app.py 57-61: extract_text raises (unreadable file), or returns a text
\* that chunk_text cuts into n passages; the count of passages since the
\* reset stops at the most vectors an index can come to hold
ExtractText(t, cap) ==
    /\ pc[t] = "extract_text"
    /\ \/ /\ ExceptionHandler(t, "extract_text")
          /\ resetInfo' = resetInfo
       \/ /\ \E n \in 0..MaxPassages :
              /\ UploadFootprint + n <= cap
              /\ up' = [up EXCEPT ![t].chunks = [k \in 1..n |-> Passage(up[t].file, k)]]
              /\ resetInfo' = [resetInfo EXCEPT !.begun = IF resetInfo.done THEN Min(@ + n, MostVectors(cap)) ELSE @]
          /\ pc' = [pc EXCEPT ![t] = "get_embedding_generator"]
          /\ UNCHANGED <<resp, local>>
    /\ UNCHANGED <<chunkVars, vsGlobal, stores, loadReport, diskIndex, diskMeta, prev, crashes,
                   snap, generators, egGlobal>>

\* embedder.py 95: the test of the global
GetEmbeddingGenerator(t) ==
    /\ pc[t] = "get_embedding_generator"
    /\ pc' = [pc EXCEPT ![t] = IF egGlobal = 0 THEN "eg_new" ELSE "eg_return"]
    /\ UNCHANGED <<chunkVars, pipeVars, vsGlobal, stores, local, resp, loadReport, diskIndex,
                   diskMeta, prev, crashes, snap>>

\* embedder.py 96: _embedding_generator = EmbeddingGenerator(); loading the
\* model can raise
EgNew(t) ==
    /\ pc[t] = "eg_new"
    /\ \/ /\ ExceptionHandler(t, "load_model")
          /\ UNCHANGED <<generators, egGlobal>>
       \/ /\ generators' = Append(generators, EmbeddingGeneratorInit)
          /\ egGlobal' = Len(generators) + 1
          /\ up' = [up EXCEPT ![t].loaded = TRUE]
          /\ pc' = [pc EXCEPT ![t] = "eg_return"]
          /\ UNCHANGED <<resp, local>>
    /\ UNCHANGED <<chunkVars, vsGlobal, stores, loadReport, diskIndex, diskMeta, prev, crashes,
                   snap, resetInfo>>

\* embedder.py 97 and 110: return _embedding_generator, bound to generator
EgReturn(t) ==
    /\ pc[t] = "eg_return"
    /\ up' = [up EXCEPT ![t].generator = egGlobal]
    /\ pc' = [pc EXCEPT ![t] = "generate_embeddings"]
    /\ UNCHANGED <<chunkVars, vsGlobal, stores, local, resp, loadReport, diskIndex, diskMeta,
                   prev, crashes, snap, generators, egGlobal, resetInfo>>

\* embedder.py 111 and 40-72: generator.generate_embeddings(chunks), which
\* returns [] for no chunks and otherwise encodes (that can raise) and
\* zips; app.py 67 then enters save_to_vector_store with the pairs
GenerateEmbeddings(t) ==
    /\ pc[t] = "generate_embeddings"
    /\ IF up[t].chunks = <<>>
       THEN /\ up' = [up EXCEPT ![t].pairs = <<>>]
            /\ local' = [local EXCEPT ![t] = [NoLocal EXCEPT !.file = up[t].file]]
            /\ pc' = [pc EXCEPT ![t] = "get_vector_store"]
            /\ resp' = resp
       ELSE \/ ExceptionHandler(t, "encode")
            \/ LET pairs == Zip(Encode(generators[up[t].generator], up[t].chunks), up[t].chunks)
               IN /\ up' = [up EXCEPT ![t].pairs = pairs, ![t].encoded = TRUE]
                  /\ local' = [local EXCEPT ![t] =
                                 [NoLocal EXCEPT !.file = up[t].file,
                                                 !.batch = [k \in 1..Len(pairs) |-> pairs[k].vec.d]]]
                  /\ pc' = [pc EXCEPT ![t] = "get_vector_store"]
                  /\ resp' = resp
    /\ UNCHANGED <<chunkVars, vsGlobal, stores, loadReport, diskIndex, diskMeta, prev, crashes,
                   snap, generators, egGlobal, resetInfo>>

ResetIndexOnly ==
    /\ ~resetInfo.done
    /\ diskIndex' = NoIndexFile
    /\ diskMeta' = diskMeta
    /\ snap' = NoSnap
    /\ resetInfo' = [done |-> TRUE,
                     live |-> vsGlobal # 0 \/ \E t \in Threads : pc[t] # "idle",
                     hadData |-> diskIndex.exists \/ diskMeta.exists,
                     begun |-> 0]
    /\ UNCHANGED <<chunkVars, vsGlobal, stores, pc, local, resp, loadReport, prev, crashes,
                   generators, egGlobal, up>>

\* reset_faiss.py 11-21: both files are removed, whatever the server is
\* doing; one run of the script is followed
Reset ==
    /\ ~resetInfo.done
    /\ diskIndex' = NoIndexFile
    /\ diskMeta' = NoMetaFile
    /\ snap' = NoSnap
    /\ resetInfo' = [done |-> TRUE,
                     live |-> vsGlobal # 0 \/ \E t \in Threads : pc[t] # "idle",
                     hadData |-> diskIndex.exists \/ diskMeta.exists,
                     begun |-> 0]
    /\ UNCHANGED <<chunkVars, vsGlobal, stores, pc, local, resp, loadReport, prev, crashes,
                   generators, egGlobal, up>>

\* one upload request at a time through the whole of upload_file, across
\* process restarts and a run of the reset script
NextPipeline ==
    \/ UploadFile(1)
    \/ ExtractText(1, MaxUploadRecords)
    \/ GetEmbeddingGenerator(1)
    \/ EgNew(1)
    \/ EgReturn(1)
    \/ GenerateEmbeddings(1)
    \/ GetVectorStore(1)
    \/ VsNew(1)
    \/ VsLoad(1)
    \/ VsReturn(1)
    \/ AddEmbeddings(1)
    \/ LoopLen(1)
    \/ LoopAppend(1)
    \/ IndexAddStep(1)
    \/ SaveIndex(1)
    \/ SaveMetadata(1)
    \/ Crash
    \/ Reset

SpecPipeline == Init /\ [][NextPipeline]_vars

\* whole uploads served concurrently within one process
NextPipelineConc ==
    \E t \in Threads :
        \/ UploadFile(t)
        \/ ExtractText(t, MaxUploadConcRecords)
        \/ GetEmbeddingGenerator(t)
        \/ EgNew(t)
        \/ EgReturn(t)
        \/ GenerateEmbeddings(t)
        \/ GetVectorStore(t)
        \/ VsNew(t)
        \/ VsLoad(t)
        \/ VsReturn(t)
        \/ AddEmbeddings(t)
        \/ LoopLen(t)
        \/ LoopAppend(t)
        \/ IndexAddStep(t)
        \/ SaveIndex(t)
        \/ SaveMetadata(t)

SpecPipelineConc == Init /\ [][NextPipelineConc]_vars

(***************************************************************************)
(* Statements about the store                                              *)
(***************************************************************************)
\* a request has finished (returned or raised) and none of its own is running
Finished(t) == pc[t] = "idle" /\ resp[t] # "none"

\* Metadata Store[i] describes exactly the vector at index position i
Aligned(st) ==
    /\ get_index_size(st) = Len(st.metadata)
    /\ \A i \in 1..Len(st.metadata) :
        /\ st.metadata[i].chunk_id = i - 1
        /\ st.index.xb[i].of = st.metadata[i].chunk_text
        /\ st.index.xb[i].of[1] = st.metadata[i].source_file

\* C1: after any sequence of save_to_vector_store calls, returned or raised,
\* the index size equals the metadata length and every record i has
\* chunk_id = i and the text and source of the vector at position i.
C1_Alignment == \A t \in Threads : Finished(t) => Aligned(TheStore(t))

\* C2: a batch holding a vector whose dimension differs from the index's is
\* rejected before anything is mutated: the call raises, and the metadata and
\* the index are what they were when add_embeddings was entered.
C2_DimensionGuard ==
    \A t \in Threads :
        (/\ Finished(t)
         /\ \E k \in 1..Len(local[t].batch) : local[t].batch[k] # TheStore(t).index.d)
        => /\ resp[t] = "error"
           /\ TheStore(t).index.xb = local[t].pre.xb
           /\ TheStore(t).metadata = local[t].pre.meta

\* C3: when concurrent uploads have all returned, one VectorStore is in use
\* and it is aligned (checked under SpecConc).
C3_Serialized ==
    (\A t \in Threads : pc[t] = "idle" /\ resp[t] = "ok")
    => /\ Len(stores) = 1
       /\ Aligned(stores[vsGlobal])

\* what load() is specified to report for the files it finds
SpecifiedReport(fi, fm) ==
    IF ~fi.exists /\ ~fm.exists THEN "absent"
    ELSE IF fi.exists /\ fm.exists THEN "loaded"
    ELSE "inconsistent"

\* C4: load() tells apart neither file present (absent), exactly one present
\* (an inconsistency, reported as such) and both present (loaded).
C4_LoadDistinguishes ==
    \A t \in Threads :
        pc[t] = "vs_return" => loadReport = SpecifiedReport(diskIndex, diskMeta)

\* C5: whenever load() has loaded a pair, the loaded index size equals the
\* loaded metadata length.
C5_LoadedPairMatches ==
    \A t \in Threads :
        (pc[t] = "vs_return" /\ loadReport = "loaded")
        => get_index_size(stores[vsGlobal]) = Len(stores[vsGlobal].metadata)

\* C6: a document of zero passages ends without an exception, with an outcome
\* that is no processing failure, and with index and metadata untouched.
C6_ZeroChunk ==
    \A t \in Threads :
        (Finished(t) /\ Len(local[t].batch) = 0)
        => /\ resp[t] # "error"
           /\ TheStore(t).index.xb = local[t].pre.xb
           /\ TheStore(t).metadata = local[t].pre.meta

\* the first n elements of s are exactly p
HasPrefix(s, p) == Len(p) <= Len(s) /\ SubSeq(s, 1, Len(p)) = p

\* C7: a finished call has grown index and metadata by the whole batch, or
\* has changed neither; what was there before is still there, in place.
C7_WholeBatch ==
    \A t \in Threads :
        Finished(t) =>
            LET st == TheStore(t)
                pre == local[t].pre
                n == Len(local[t].batch)
            IN \/ st.metadata = pre.meta /\ st.index.xb = pre.xb
               \/ /\ Len(st.metadata) = Len(pre.meta) + n
                  /\ Len(st.index.xb) = Len(pre.xb) + n
                  /\ HasPrefix(st.metadata, pre.meta)
                  /\ HasPrefix(st.index.xb, pre.xb)

\* every vector of the batch has the dimension of the embedding model
FromPipeline(batch) == \A k \in 1..Len(batch) : batch[k] = DefaultDimension

\* C8: from an aligned store of size s, document A (n passages) and then
\* document B (m passages) leave index size and metadata length at s+n+m,
\* A's records with chunk_id s..s+n-1 and B's with s+n..s+n+m-1.
C8_IncrementalAppend ==
    (/\ Finished(1)
     /\ prev.any
     /\ prev.s = prev.isz
     /\ FromPipeline(prev.batch)
     /\ FromPipeline(local[1].batch))
    => LET st == TheStore(1)
           s == prev.s
           n == Len(prev.batch)
           m == Len(local[1].batch)
       IN /\ get_index_size(st) = s + n + m
          /\ Len(st.metadata) = s + n + m
          /\ \A j \in 1..n : st.metadata[s + j].chunk_id = s + j - 1
          /\ \A j \in 1..m : /\ st.metadata[s + n + j].chunk_id = s + n + j - 1
                             /\ st.metadata[s + n + j].source_file = local[1].file

C8_Witness ==
    /\ Finished(1)
    /\ resp[1] = "ok"
    /\ prev.any
    /\ prev.s = 1
    /\ prev.isz = 1
    /\ prev.batch = <<DefaultDimension>>
    /\ local[1].batch = <<DefaultDimension>>
    /\ TheStore(1).metadata[3].chunk_id = 2
    /\ get_index_size(TheStore(1)) = 3

\* C9: once save() has finished, load() into the default-constructed store
\* of a new process gives an index of the same size and dimension and a
\* metadata list equal to the saved one, element for element and in order.
C9_RoundTrip ==
    \A t \in Threads :
        (pc[t] = "vs_return" /\ snap.valid)
        => LET st == stores[vsGlobal]
           IN /\ loadReport = "loaded"
              /\ get_index_size(st) = snap.size
              /\ st.index.d = snap.d
              /\ st.index.d = snap.dimension
              /\ st.dimension = snap.dimension
              /\ Len(st.metadata) = Len(snap.metadata)
              /\ \A i \in 1..Len(snap.metadata) : st.metadata[i] = snap.metadata[i]

C9_Witness ==
    /\ pc[1] = "vs_return"
    /\ snap.valid
    /\ snap.size = 2
    /\ Len(snap.metadata) = 2
    /\ loadReport = "loaded"
    /\ stores[vsGlobal].metadata = snap.metadata

(***************************************************************************)
(* chunker.py: chunk_text over texts as sequences of characters            *)
(***************************************************************************)
\* the characters texts are drawn from: a letter, a sentence end, whitespace
Chars == {"a", ".", " ", "\n"}

\* what str.strip, str.split and the pattern \s take for whitespace
Whitespace == {" ", "\t", "\n", "\r", "\f"}

\* the sentence-terminal characters of line 46
Terminals == {".", "!", "?"}

RECURSIVE LStrip(_)
LStrip(s) == IF s = <<>> \/ Head(s) \notin Whitespace THEN s ELSE LStrip(Tail(s))

RECURSIVE RStrip(_)
RStrip(s) ==
    IF s = <<>> \/ s[Len(s)] \notin Whitespace THEN s ELSE RStrip(SubSeq(s, 1, Len(s) - 1))

\* text.strip()
Strip(s) == RStrip(LStrip(s))

RECURSIVE CollapseSpacesOnly(_)
CollapseSpacesOnly(s) ==
    IF s = <<>> THEN <<>>
    ELSE IF Head(s) = " "
         THEN (IF Len(s) > 1 /\ s[2] = " "
               THEN CollapseSpacesOnly(Tail(s))
               ELSE <<" ">> \o CollapseSpacesOnly(Tail(s)))
         ELSE <<Head(s)>> \o CollapseSpacesOnly(Tail(s))

\* re.sub(r'\s+', ' ', s): every maximal run of whitespace becomes one space
RECURSIVE CollapseWhitespace(_)
CollapseWhitespace(s) ==
    IF s = <<>> THEN <<>>
    ELSE IF Head(s) \in Whitespace
         THEN <<" ">> \o CollapseWhitespace(LStrip(s))
         ELSE <<Head(s)>> \o CollapseWhitespace(Tail(s))

\* text.split(): the maximal runs of non-whitespace, in order
RECURSIVE SplitFrom(_, _, _)
SplitFrom(s, word, acc) ==
    IF s = <<>>
    THEN (IF word = <<>> THEN acc ELSE Append(acc, word))
    ELSE IF Head(s) \in Whitespace
         THEN SplitFrom(Tail(s), <<>>, IF word = <<>> THEN acc ELSE Append(acc, word))
         ELSE SplitFrom(Tail(s), Append(word, Head(s)), acc)

Split(s) == SplitFrom(s, <<>>, <<>>)

\* ' '.join(words)
RECURSIVE Join(_)
Join(ws) ==
    IF ws = <<>> THEN <<>>
    ELSE IF Len(ws) = 1 THEN ws[1]
    ELSE ws[1] \o <<" ">> \o Join(Tail(ws))

\* word.endswith(('.', '!', '?'))
EndsSentence(word) == word # <<>> /\ word[Len(word)] \in Terminals

CloseOnlyAtMax(word, count, target_words, max_words) ==
    count >= target_words /\ count >= max_words

CloseAtTarget(word, count, target_words, max_words) ==
    count >= target_words

CloseAboveMax(word, count, target_words, max_words) ==
    count >= target_words /\ (EndsSentence(word) \/ count > max_words)

\* lines 44-46: the running chunk is closed after this word
CloseHere(word, count, target_words, max_words) ==
    count >= target_words /\ (EndsSentence(word) \/ count >= max_words)

RECURSIVE LoopRunDropsClosingWord(_, _, _, _, _, _)
LoopRunDropsClosingWord(words, k, current_chunk, out, target_words, max_words) ==
    IF k > Len(words)
    THEN [chunks |-> out, current_chunk |-> current_chunk]
    ELSE LET cur == Append(current_chunk, words[k])
         IN IF CloseHere(words[k], Len(cur), target_words, max_words)
            THEN LoopRunDropsClosingWord(words, k + 1, <<>>, Append(out, Join(current_chunk)),
                                         target_words, max_words)
            ELSE LoopRunDropsClosingWord(words, k + 1, cur, out, target_words, max_words)

\* lines 39-50: the loop over the words; what it leaves in chunks and in
\* current_chunk
RECURSIVE LoopRun(_, _, _, _, _, _)
LoopRun(words, k, current_chunk, out, target_words, max_words) ==
    IF k > Len(words)
    THEN [chunks |-> out, current_chunk |-> current_chunk]
    ELSE LET cur == Append(current_chunk, words[k])
         IN IF CloseHere(words[k], Len(cur), target_words, max_words)
            THEN LoopRun(words, k + 1, <<>>, Append(out, Join(cur)), target_words, max_words)
            ELSE LoopRun(words, k + 1, cur, out, target_words, max_words)

ChunkLoopDropsLeftover(words, k, current_chunk, out, target_words, max_words) ==
    LoopRun(words, k, current_chunk, out, target_words, max_words).chunks

\* lines 35-54: the loop, then the leftover as the final chunk
ChunkLoop(words, k, current_chunk, out, target_words, max_words) ==
    LET r == LoopRun(words, k, current_chunk, out, target_words, max_words)
    IN IF r.current_chunk # <<>>
       THEN Append(r.chunks, Join(r.current_chunk))
       ELSE r.chunks

\* line 26: the normalized text
Normalize(s) == CollapseWhitespace(Strip(s))

chunk_text_no_strip_test(s, target_words, min_words, max_words) ==
    IF s = <<>>
    THEN <<>>
    ELSE LET norm == Normalize(s)
             words == Split(norm)
         IN IF Len(words) <= max_words
            THEN <<norm>>
            ELSE ChunkLoop(words, 1, <<>>, <<>>, target_words, max_words)

\* chunk_text; min_words is only printed
chunk_text(s, target_words, min_words, max_words) ==
    IF s = <<>> \/ Strip(s) = <<>>
    THEN <<>>
    ELSE LET norm == Normalize(s)
             words == Split(norm)
         IN IF Len(words) <= max_words
            THEN <<norm>>
            ELSE ChunkLoop(words, 1, <<>>, <<>>, target_words, max_words)

\* current_chunk at line 53 (empty when the loop was not entered)
current_chunk_at_end(s, target_words, max_words) ==
    IF s = <<>> \/ Strip(s) = <<>> \/ Len(Split(Normalize(s))) <= max_words
    THEN <<>>
    ELSE LoopRun(Split(Normalize(s)), 1, <<>>, <<>>, target_words, max_words).current_chunk

\* len(chunk.split())
WordCount(s) == Len(Split(s))

Texts == SeqsUpTo(Chars, 0, MaxLen)

InitChunk ==
    /\ vsGlobal = 0
    /\ stores = <<>>
    /\ pc = [t \in Threads |-> "idle"]
    /\ local = [t \in Threads |-> NoLocal]
    /\ resp = [t \in Threads |-> "none"]
    /\ loadReport = "none"
    /\ diskIndex = NoIndexFile
    /\ diskMeta = NoMetaFile
    /\ prev = NoPrev
    /\ crashes = 0
    /\ snap = NoSnap
    /\ generators = <<>>
    /\ egGlobal = 0
    /\ up = [t \in Threads |-> NoUp]
    /\ resetInfo = NoReset
    /\ text \in Texts
    /\ target \in 1..MaxMaxWords
    /\ maxw \in 1..MaxMaxWords
    /\ chunks = <<>>
    /\ leftover = <<>>
    /\ called = FALSE

\* one call chunk_text(text, target_words=target, max_words=maxw)
ChunkText ==
    /\ ~called
    /\ chunks' = chunk_text(text, target, Min(target, maxw), maxw)
    /\ leftover' = current_chunk_at_end(text, target, maxw)
    /\ called' = TRUE
    /\ UNCHANGED <<storeVars, pipeVars, text, target, maxw>>

NextChunk == ChunkText

SpecChunk == InitChunk /\ [][NextChunk]_vars

(***************************************************************************)
(* Statements about the chunker                                            *)
(***************************************************************************)
\* C10: for an input of more than max words (target <= max), every passage
\* but the last has between target and max words, and the last has at least
\* one word and at most max.
C10_ChunkBounds ==
    (called /\ target <= maxw /\ WordCount(Normalize(text)) > maxw)
    => /\ Len(chunks) >= 1
       /\ \A i \in 1..(Len(chunks) - 1) :
            WordCount(chunks[i]) >= target /\ WordCount(chunks[i]) <= maxw
       /\ WordCount(chunks[Len(chunks)]) > 0
       /\ WordCount(chunks[Len(chunks)]) <= maxw

C10_Witness ==
    /\ called
    /\ target = 1
    /\ maxw = 2
    /\ WordCount(Normalize(text)) = 3
    /\ Len(chunks) = 2
    /\ EndsSentence(chunks[1])
    /\ WordCount(chunks[1]) = 1
    /\ WordCount(chunks[2]) = 2

\* the text is empty or whitespace from end to end
Blank(s) == \A i \in 1..Len(s) : s[i] \in Whitespace

\* C13 as stated: an input of at most max words gives exactly one passage,
\* the words of the input joined by single spaces.
C13_SingleChunkAnyInput ==
    (called /\ WordCount(Normalize(text)) <= maxw)
    => chunks = <<Join(Split(text))>>

\* C13 amended: an input of at least one and at most max words gives exactly
\* one passage, the words of the input joined by single spaces, with no
\* whitespace at either end and none but single spaces inside.
C13_SingleChunk ==
    (called /\ ~Blank(text) /\ WordCount(Normalize(text)) <= maxw)
    => /\ Len(chunks) = 1
       /\ chunks[1] = Join(Split(text))
       /\ chunks[1][1] \notin Whitespace
       /\ chunks[1][Len(chunks[1])] \notin Whitespace
       /\ \A i \in 1..Len(chunks[1]) :
            chunks[1][i] \in Whitespace
            => chunks[1][i] = " " /\ chunks[1][i + 1] \notin Whitespace

C13_Witness ==
    /\ called
    /\ maxw = 2
    /\ text = <<" ", "a", "\n", " ", "a", ".", " ">>
    /\ chunks = << <<"a", " ", "a", ".">> >>

\* C15: the empty string and every whitespace-only string give the empty
\* sequence.
C15_EmptyInput == (called /\ Blank(text)) => chunks = <<>>

C15_Witness ==
    /\ called
    /\ text = <<" ", "\n", " ">>
    /\ chunks = <<>>

\* C16 as stated: for an input of more than max words, the words left over
\* after the loop are the final passage and are fewer than target.
C16_LeftoverBelowTarget ==
    (called /\ WordCount(Normalize(text)) > maxw /\ leftover # <<>>)
    => /\ Len(chunks) >= 1
       /\ chunks[Len(chunks)] = Join(leftover)
       /\ Len(leftover) < target

\* C16 amended: for an input of more than max words, the words left over
\* after the loop are the final passage and are fewer than max (fewer than
\* target when target exceeds max); without leftover words the final
\* passage is one the loop closed.
C16_LeftoverBelowMax ==
    (called /\ WordCount(Normalize(text)) > maxw)
    => IF leftover # <<>>
       THEN /\ Len(chunks) >= 1
            /\ chunks[Len(chunks)] = Join(leftover)
            /\ Len(leftover) < Max(target, maxw)
       ELSE /\ Len(chunks) >= 1
            /\ WordCount(chunks[Len(chunks)]) >= target

C16_Witness ==
    /\ called
    /\ target = 1
    /\ maxw = 3
    /\ Len(chunks) = 2
    /\ Len(leftover) = 1
    /\ chunks[2] = Join(leftover)
    /\ Len(leftover) >= target

\* the passages closed inside the loop
NumClosed == Len(chunks) - (IF leftover # <<>> THEN 1 ELSE 0)

\* the word at in-passage position q is a place where the rule closes
BreakPoint(ws, q, tg, mx) ==
    q >= tg /\ (ws[q][Len(ws[q])] \in {".", "!", "?"} \/ q = mx)

\* every passage closed in the loop ends at its first break point, and the
\* leftover holds none
GreedyBreaks ==
    /\ \A i \in 1..NumClosed :
        LET ws == Split(chunks[i])
        IN /\ Len(ws) >= 1
           /\ BreakPoint(ws, Len(ws), target, maxw)
           /\ \A q \in 1..(Len(ws) - 1) : ~BreakPoint(ws, q, target, maxw)
    /\ \A q \in 1..Len(leftover) : ~BreakPoint(leftover, q, target, maxw)

NoSentenceEnd(s) == \A i \in 1..Len(Split(s)) : ~EndsSentence(Split(s)[i])

\* N words cut every mx words: N \div mx passages of mx words, then the rest
SlicedAtMax(N, mx) ==
    /\ Len(chunks) = (N \div mx) + (IF N % mx = 0 THEN 0 ELSE 1)
    /\ \A i \in 1..(N \div mx) : WordCount(chunks[i]) = mx
    /\ N % mx # 0 => WordCount(chunks[Len(chunks)]) = N % mx

SaveInProgress == \E t \in Threads : pc[t] \in {"save_index", "save_metadata"}

\* C18: whenever a save() has completed and no save is in progress, the
\* index file holds as many vectors as the metadata file holds records.
C18_PairAfterSave ==
    (snap.valid /\ ~SaveInProgress)
    => /\ diskIndex.exists
       /\ diskMeta.exists
       /\ diskIndex.ntotal = Len(diskMeta.items)

(***************************************************************************)
(* Statements about upload_file, the embedder and the reset script         *)
(***************************************************************************)
\* C11: the EmbeddingGenerator is constructed at most once per process and
\* every request that obtained a handle obtained the same one.
C11_OneGenerator ==
    /\ Len(generators) <= 1
    /\ \A t1, t2 \in Threads :
        (up[t1].generator # 0 /\ up[t2].generator # 0)
        => up[t1].generator = up[t2].generator

\* the statements of upload_file before save_to_vector_store is entered
BeforeAppend ==
    {"extract_text", "get_embedding_generator", "eg_new", "eg_return", "generate_embeddings"}

\* the statements from the entry of save_to_vector_store to the end of save
InSave ==
    {"get_vector_store", "vs_new", "vs_load", "vs_return", "add_embeddings",
     "loop_len", "loop_append", "index_add", "save_index", "save_metadata"}

\* the globals, the stores and the two files are what request t found
AsAtStart(t) ==
    /\ vsGlobal = up[t].start.vsGlobal
    /\ stores = up[t].start.stores
    /\ diskIndex = up[t].start.diskIndex
    /\ diskMeta = up[t].start.diskMeta

\* C12: a request that failed in extraction, in loading the model or in
\* encoding has left the in-memory index and metadata and both files as it
\* found them (no reset script having run meanwhile), and a request reaches
\* save_to_vector_store only with every passage embedded.
C12_FailureLeavesState ==
    \A t \in Threads :
        /\ (/\ up[t].afterReset = resetInfo.done
            /\ \/ pc[t] \in BeforeAppend
               \/ pc[t] = "idle" /\ resp[t] = "error"
                                 /\ up[t].failed \in {"extract_text", "load_model", "encode"})
           => AsAtStart(t)
        /\ pc[t] \in InSave
           => /\ up[t].failed = ""
              /\ Len(up[t].pairs) = Len(up[t].chunks)
              /\ Len(local[t].batch) = Len(up[t].chunks)

C12_Witness ==
    /\ pc[1] = "idle"
    /\ resp[1] = "error"
    /\ up[1].failed = "encode"
    /\ up[1].afterReset = resetInfo.done
    /\ Len(up[1].chunks) = 1
    /\ Len(diskMeta.items) = 1
    /\ vsGlobal # 0
    /\ Len(stores[vsGlobal].metadata) = 1
    /\ get_index_size(stores[vsGlobal]) = 1

\* generate_embeddings has just returned to request t
Embedded(t) == pc[t] = "get_vector_store"

\* the pairs are the passages in order, each with its own vector
OneToOne(t) ==
    /\ Len(up[t].pairs) = Len(up[t].chunks)
    /\ \A i \in 1..Len(up[t].pairs) :
        /\ up[t].pairs[i].chunk = up[t].chunks[i]
        /\ up[t].pairs[i].vec = Embed(up[t].chunks[i], DefaultDimension)

\* C14 as stated: the result pairs each passage with its vector, in order;
\* for no passages it is empty and the call neither loaded the model nor
\* asked it to encode.
C14_EmbedManyNoLoad ==
    \A t \in Threads :
        Embedded(t)
        => /\ OneToOne(t)
           /\ up[t].chunks = <<>> => (up[t].pairs = <<>> /\ ~up[t].encoded /\ ~up[t].loaded)

\* C14 amended: the same, but for no passages only encode is not called;
\* the model handle is obtained all the same.
C14_EmbedMany ==
    \A t \in Threads :
        Embedded(t)
        => /\ OneToOne(t)
           /\ up[t].generator # 0
           /\ up[t].generator = egGlobal
           /\ up[t].chunks = <<>> => (up[t].pairs = <<>> /\ ~up[t].encoded)
           /\ up[t].chunks # <<>> => up[t].encoded

C14_Witness ==
    /\ Embedded(1)
    /\ Len(up[1].chunks) = 2
    /\ up[1].pairs[1].chunk = Passage(up[1].file, 1)
    /\ up[1].pairs[2].chunk = Passage(up[1].file, 2)
    /\ up[1].pairs[1].vec # up[1].pairs[2].vec
    /\ up[1].encoded

\* the two files hold no more than the passages uploaded since the reset,
\* numbered from 0
FreshArtifacts ==
    /\ Len(diskMeta.items) <= resetInfo.begun
    /\ diskIndex.ntotal <= resetInfo.begun
    /\ \A i \in 1..Len(diskMeta.items) : JsonDict(diskMeta.items[i]).chunk_id = i - 1

\* C19 as stated: once an upload begun after the reset has been saved, the
\* two files hold only what was uploaded since the reset, chunk_id from 0.
C19_ResetAnyTime ==
    \A t \in Threads :
        (resetInfo.done /\ up[t].afterReset /\ pc[t] = "idle" /\ resp[t] = "ok")
        => FreshArtifacts

\* C19 amended: when the reset script ran while the server held no store
\* and served no request, the two files hold from then on only what was
\* uploaded since the reset, chunk_id from 0.
C19_ResetWhileStopped ==
    (resetInfo.done /\ ~resetInfo.live) => FreshArtifacts

C19_Witness ==
    /\ resetInfo.done
    /\ ~resetInfo.live
    /\ resetInfo.hadData
    /\ up[1].afterReset
    /\ pc[1] = "idle"
    /\ resp[1] = "ok"
    /\ Len(diskMeta.items) = 1
    /\ JsonDict(diskMeta.items[1]).chunk_id = 0
    /\ diskIndex.ntotal = 1

\* the words of the passages, passage after passage
RECURSIVE WordsOf(_)
WordsOf(ps) == IF ps = <<>> THEN <<>> ELSE Split(Head(ps)) \o WordsOf(Tail(ps))

\* C21: for every non-empty input the passages joined by single spaces are
\* the normalized text, their words are the words of the input in order,
\* each once and whole, and no passage is empty.
C21_ContentPreserved ==
    (called /\ text # <<>>)
    => /\ Join(chunks) = Join(Split(text))
       /\ Join(chunks) = Normalize(text)
       /\ WordsOf(chunks) = Split(text)
       /\ \A i \in 1..Len(chunks) : chunks[i] # <<>> /\ Split(chunks[i]) # <<>>

C21_Witness ==
    /\ called
    /\ target = 1
    /\ maxw = 2
    /\ text = <<"a", ".", " ", "a", "\n", " ", "a">>
    /\ chunks = << <<"a", ".">>, <<"a", " ", "a">> >>

(***************************************************************************)
(* Statements about durability                                             *)
(***************************************************************************)
\* the two files are the images of what store st holds
Persisted(st) ==
    /\ diskIndex = write_index(st.index)
    /\ diskMeta = json_dump(st.metadata)
    /\ diskIndex.ntotal = get_index_size(st)
    /\ json_load(diskMeta) = st.metadata

\* C22: when save_to_vector_store has returned normally the two files hold
\* the index and the metadata list of the process-wide store; the first
\* get_vector_store of the next process then yields a store of that size and
\* with that metadata list; and a process constructs and loads its store at
\* most once, in its first call.
C22_Durable ==
    /\ Len(stores) <= 1
    /\ \A t \in Threads :
        /\ (pc[t] = "idle" /\ resp[t] = "ok")
           => /\ local[t].store = vsGlobal
              /\ Persisted(stores[vsGlobal])
        /\ (pc[t] = "vs_return" /\ snap.valid)
           => /\ get_index_size(stores[vsGlobal]) = snap.size
              /\ stores[vsGlobal].metadata = snap.metadata
        /\ pc[t] \in {"vs_new", "vs_load", "vs_return"} => ~prev.any

====
